---- MODULE Spec2Model ----
(***************************************************************************)
(* State-machine model of the DivvyDroid video worker                      *)
(* (src/src/device/videothread.cpp): the H.264 decode session              *)
(* (h264Init, read_packet, h264Connect, h264VideoStreamIndex, h264Loop,    *)
(* h264Exit), the snapshot loop (nativeLoop) and run().                    *)
(*                                                                         *)
(* The worker thread is a program counter `pc`.  Other threads appear as   *)
(* the actions RequestInterruption and SetVideoMode.  The libav* and       *)
(* AdbClient calls are the environment: each returns any result its        *)
(* interface allows.  Pointers are modelled together with the state of     *)
(* the object they point to, so that leaks, double frees and null          *)
(* dereferences are visible.                                               *)
(***************************************************************************)
EXTENDS Integers, Sequences, FiniteSets, TLC

\* ---------------------------------------------------------------- bounds
MaxStreams == 2   \* streams the probed input may contain
MaxFrames  == 2   \* frames emitted in one session (caps the counter)
MaxFills   == 1   \* read_packet calls one libavformat call may make
MaxAvail   == 2   \* bytes the connection may have buffered
MaxSrc     == 2   \* width/height of a fetched snapshot range over 0..MaxSrc

\* capacity handed to read_packet (8192 in the source, scaled down)
BufSize == 1

\* ---------------------------------------------------------------- state
VARIABLES
  pc,             \* position of the worker thread
  m_videoMode,    \* acquisition mode (written by setVideoMode)
  intr,           \* QThread interruption flag
  intrAtStart,    \* history: the flag was already set when run() started
  observed,       \* history: where the worker has seen the flag set
  m_imageWidth, m_imageHeight,
  \* --- resources of the decode session
  heap,           \* state of fmt, pb, frame, rgb, rgbdata objects
  codecLive,      \* streams whose decoder context is allocated and not freed
  swsLive,        \* streams whose scaler is allocated and not freed
  m_avFormat, m_frame, m_rgbFrame,   \* TRUE = non-null
  m_codecCtx, m_swsContext,          \* 0 = null, i = object of stream i
  streams,        \* what probing found: one kind per stream (kept until
                  \* h264VideoStreamIndex has returned)
  nbStreams,      \* m_avFormat->nb_streams
  streamIndex,    \* result of h264VideoStreamIndex (-1 = none)
  \* --- byte-source adapter (read_packet) and connection
  caller,         \* libavformat call that invoked read_packet
  fills,          \* read_packet calls made by the current libav call
  rpRet,          \* last value returned by read_packet (0 = none yet)
  rpCause,        \* why read_packet returned
  len,            \* local `len` of read_packet
  waitRes,        \* result of waitForReadyRead
  err,            \* local `err` of read_packet: m_adb->error()
  connected,      \* m_adb->isConnected()
  avail,          \* m_adb->bytesAvailable()
  connAttempts,   \* h264Connect calls in the current read_packet call
  sendsOk,        \* capture-start commands accepted in the current call
  \* --- decode loop
  readRet,        \* what av_read_frame returned in this iteration
  drainDecoder, feedRet, recvRet,
  pktHeld,        \* pkt holds a reference that av_packet_unref must drop
  pktLeaked,      \* history: a held packet was overwritten or abandoned
  res, result, returned,
  emitted, lastEmit,
  exitCalls, exitPath, freeLog, snap,
  ub,             \* undefined-behaviour events that have happened
  awake           \* aDev->isScreenAwake() as sampled by nativeLoop

cfgVars  == <<m_videoMode, intr, intrAtStart, observed, m_imageWidth, m_imageHeight>>
resVars  == <<heap, codecLive, swsLive, m_avFormat, m_frame, m_rgbFrame,
              m_codecCtx, m_swsContext, streams, nbStreams, streamIndex>>
rpVars   == <<caller, fills, rpRet, rpCause, len, waitRes, err,
              connected, avail, connAttempts, sendsOk>>
loopVars == <<readRet, drainDecoder, feedRet, recvRet, pktHeld, pktLeaked, res,
              result, returned>>
outVars  == <<emitted, lastEmit>>
exitVars == <<exitCalls, exitPath, freeLog, snap, ub>>
vars == <<pc, cfgVars, resVars, rpVars, loopVars, outVars, exitVars, awake>>

\* ---------------------------------------------------------------- values
VideoModes  == {"FastH264", "NativeJpg", "NativeRaw", "NativePng"}
Singletons  == {"fmt", "pb", "frame", "rgb", "rgbdata"}
StreamIds   == 1..MaxStreams
\* outcome of the selection loop body for one stream
\* ("ctxfail": parameters not copied, not a video decoder, or open failed)
StreamKinds == {"audio", "nodec", "noalloc", "ctxfail", "ok", "oknosws"}
\* the output resolutions a session is configured with (setImageSize)
OutputSizes == {<<2, 2>>, <<3, 2>>}
\* the value every failing branch of read_packet returns
RP_FAIL == -1

RECURSIVE SeqsUpTo(_, _)
SeqsUpTo(S, n) ==
  IF n = 0 THEN {<< >>}
  ELSE LET shorter == SeqsUpTo(S, n - 1)
       IN shorter \cup {Append(s, x) : s \in {t \in shorter : Len(t) = n - 1}, x \in S}

NoEmit == [w |-> 0, h |-> 0, src |-> "none"]

\* ---------------------------------------------------------------- Init
\* State when run() is entered: the object is constructed, the owner has
\* configured size and mode, and may already have requested interruption.
Init ==
  /\ pc = "run"
  /\ m_videoMode \in VideoModes
  /\ intr \in BOOLEAN
  /\ intrAtStart = intr
  /\ observed = "no"
  /\ \E sz \in OutputSizes : m_imageWidth = sz[1] /\ m_imageHeight = sz[2]
  /\ heap = [o \in Singletons |-> "unalloc"]
  /\ codecLive = {} /\ swsLive = {}
  /\ m_avFormat = FALSE /\ m_frame = FALSE /\ m_rgbFrame = FALSE
  /\ m_codecCtx = 0 /\ m_swsContext = 0
  /\ streams = << >> /\ nbStreams = 0 /\ streamIndex = -1
  /\ caller = "none" /\ fills = 0 /\ rpRet = 0 /\ rpCause = "none"
  /\ len = 0 /\ waitRes = FALSE /\ err = "none"
  /\ connected = FALSE /\ avail = 0 /\ connAttempts = 0 /\ sendsOk = 0
  /\ readRet = "none"
  /\ drainDecoder = FALSE /\ feedRet = "none" /\ recvRet = "none"
  /\ pktHeld = FALSE /\ pktLeaked = FALSE
  /\ res = FALSE /\ result = FALSE /\ returned = FALSE
  /\ emitted = 0 /\ lastEmit = NoEmit
  /\ exitCalls = 0 /\ exitPath = "none" /\ freeLog = << >>
  /\ snap = << >> /\ ub = {}
  /\ awake = FALSE

\* ---------------------------------------------------------------- other threads
\* requestInterruption() from the owner (the destructor or anyone else).
RequestInterruption ==
  /\ ~intr
  /\ pc \notin {"closed", "crashed"}
  /\ intr' = TRUE
  /\ UNCHANGED <<pc, m_videoMode, intrAtStart, observed, m_imageWidth,
                 m_imageHeight, resVars, rpVars, loopVars, outVars,
                 exitVars, awake>>

\* setVideoMode(mode) from another thread.  The field is only read by run()
\* and nativeLoop(), so calls made while the decode session runs are not
\* enumerated.
SetVideoMode(mode) ==
  /\ pc \in {"run", "n_top", "n_body", "n_sleep"}
  /\ mode # m_videoMode
  /\ m_videoMode' = mode
  /\ UNCHANGED <<pc, intr, intrAtStart, observed, m_imageWidth,
                 m_imageHeight, resVars, rpVars, loopVars, outVars,
                 exitVars, awake>>

\* ---------------------------------------------------------------- run()
\* run(): m_adb = new AdbClient(); dispatch on the mode.
Run ==
  /\ pc = "run"
  /\ pc' = IF m_videoMode = "FastH264" THEN "h264Init" ELSE "n_top"
  /\ connected' = FALSE /\ avail' = 0
  /\ UNCHANGED <<cfgVars, resVars, caller, fills, rpRet, rpCause, len,
                 waitRes, err, connAttempts, sendsOk, loopVars, outVars,
                 exitVars, awake>>

\* run() after the loop returned: close(), waitForDisconnected(), deleteLater().
RunClose ==
  /\ pc \in {"returned", "n_done"}
  /\ pc' = "closed"
  /\ connected' = FALSE
  /\ UNCHANGED <<cfgVars, resVars, caller, fills, rpRet, rpCause, len,
                 waitRes, err, avail, connAttempts, sendsOk, loopVars,
                 outVars, exitVars, awake>>

\* ---------------------------------------------------------------- nativeLoop
\* QImage::scaledToWidth(w, Qt::SmoothTransformation) on an image of size
\* (sw, sh): a null image stays null; otherwise both sides are multiplied by
\* w/sw and rounded up.
ScaledToWidth(sw, sh, w) ==
  IF sw = 0 \/ sh = 0 THEN [w |-> 0, h |-> 0]
  ELSE [w |-> w, h |-> (sh * w + sw - 1) \div sw]

\* the modes for which nativeLoop fetches a snapshot (lines 321-326)
NativeModeOk_drop(mode) == mode \in {"NativeJpg", "NativeRaw"}
NativeModeOk(mode) == mode \in {"NativeJpg", "NativeRaw", "NativePng"}

\* while (!isInterruptionRequested())
NativeTop ==
  /\ pc = "n_top"
  /\ IF intr
       THEN pc' = "n_done" /\ observed' = "top"
       ELSE pc' = "n_body" /\ UNCHANGED observed
  /\ UNCHANGED <<m_videoMode, intr, intrAtStart, m_imageWidth, m_imageHeight,
                 resVars, rpVars, loopVars, outVars, exitVars, awake>>

\* loop body with the display off: black placeholder, scaled, emitted.
NativeAsleep ==
  /\ pc = "n_body"
  /\ emitted < MaxFrames
  /\ awake' = FALSE
  /\ LET img == ScaledToWidth(m_imageWidth, m_imageHeight, m_imageWidth)
     IN lastEmit' = [w |-> img.w, h |-> img.h, src |-> "black"]
  /\ emitted' = emitted + 1
  /\ pc' = "n_sleep"
  /\ UNCHANGED <<cfgVars, resVars, rpVars, loopVars, exitVars>>

\* loop body with the display on and a snapshot mode: fetch an image of any
\* size (0 x 0 is the empty result of a failed fetch), scale, emit.
NativeFetch(sw, sh) ==
  /\ pc = "n_body"
  /\ emitted < MaxFrames
  /\ NativeModeOk(m_videoMode)
  /\ awake' = TRUE
  /\ LET img == ScaledToWidth(sw, sh, m_imageWidth)
     IN lastEmit' = [w |-> img.w, h |-> img.h, src |-> "fetch"]
  /\ emitted' = emitted + 1
  /\ pc' = "n_sleep"
  /\ UNCHANGED <<cfgVars, resVars, rpVars, loopVars, exitVars>>

\* loop body with the display on and any other mode: return.
NativeReturn ==
  /\ pc = "n_body"
  /\ ~NativeModeOk(m_videoMode)
  /\ awake' = TRUE
  /\ pc' = "n_done"
  /\ UNCHANGED <<cfgVars, resVars, rpVars, loopVars, outVars, exitVars>>

\* msleep(m_nativeInterval)
NativeSleep ==
  /\ pc = "n_sleep"
  /\ pc' = "n_top"
  /\ UNCHANGED <<cfgVars, resVars, rpVars, loopVars, outVars, exitVars, awake>>

NativeLoop ==
  \/ NativeTop
  \/ NativeAsleep
  \/ \E sw \in 0..MaxSrc, sh \in 0..MaxSrc :
        /\ (sw = 0) = (sh = 0)
        /\ NativeFetch(sw, sh)
  \/ NativeReturn
  \/ NativeSleep

\* ---------------------------------------------------------------- h264Init
\* h264Init, lines 124-145: the I/O buffer and context, the demux context,
\* the two frames and the output pixel storage are allocated; then
\* avformat_open_input starts.
H264InitAlloc ==
  /\ pc = "h264Init"
  /\ heap' = [o \in Singletons |-> "live"]
  /\ m_avFormat' = TRUE /\ m_frame' = TRUE /\ m_rgbFrame' = TRUE
  /\ pc' = "open"
  /\ UNCHANGED <<cfgVars, codecLive, swsLive, m_codecCtx, m_swsContext,
                 streams, nbStreams, streamIndex, rpVars, loopVars, outVars,
                 exitVars, awake>>

\* A libavformat call (avformat_open_input, avformat_find_stream_info,
\* av_read_frame) asks the custom I/O context for bytes: read_packet is
\* entered.  After a failing read_packet the call asks no more.
LibFill ==
  /\ pc \in {"open", "info", "read"}
  /\ fills < MaxFills
  /\ rpRet >= 0
  /\ caller' = pc
  /\ fills' = fills + 1
  /\ pc' = "rp_entry"
  /\ UNCHANGED <<cfgVars, resVars, rpRet, rpCause, len, waitRes, err,
                 connected, avail, connAttempts, sendsOk, loopVars, outVars,
                 exitVars, awake>>

\* ---------------------------------------------------------------- read_packet
\* the value read_packet returns for each way of leaving it
ReadPacketRet(cause, n) == IF cause = "data" THEN n ELSE RP_FAIL

\* read_packet returns: its locals are gone, the caller resumes
RpReturn(cause, n) ==
  /\ rpCause' = cause
  /\ rpRet' = ReadPacketRet(cause, n)
  /\ len' = 0 /\ waitRes' = FALSE /\ err' = "none"
  /\ pc' = caller
  /\ caller' = "none"

\* line 92: len = bytesAvailable(); then the while (len == 0) test
RpEntry ==
  /\ pc = "rp_entry"
  /\ len' = avail
  /\ connAttempts' = 0 /\ sendsOk' = 0
  /\ pc' = IF avail = 0 THEN "rp_loop" ELSE "rp_copy"
  /\ UNCHANGED <<cfgVars, resVars, caller, fills, rpRet, rpCause, waitRes,
                 err, connected, avail, loopVars, outVars, exitVars, awake>>

\* line 94: h264Connect() is called only when isConnected() is false
NeedsConnect_always(up) == TRUE
NeedsConnect(up) == ~up

\* line 94 with the connection up: nothing to do before waiting
RpConnected ==
  /\ pc = "rp_loop"
  /\ ~NeedsConnect(connected)
  /\ pc' = "rp_wait"
  /\ UNCHANGED <<cfgVars, resVars, rpVars, loopVars, outVars, exitVars, awake>>

\* line 94 with the connection down: h264Connect() (lines 67-86).
\* connOk is connectToDevice(), sendOk is send(cmd).
RpReconnect(connOk, sendOk) ==
  /\ pc = "rp_loop"
  /\ NeedsConnect(connected)
  /\ connAttempts' = connAttempts + 1
  /\ connected' = connOk
  /\ IF connOk /\ sendOk
       THEN /\ sendsOk' = sendsOk + 1
            /\ pc' = "rp_wait"
            /\ UNCHANGED <<rpRet, rpCause, len, waitRes, err>>
            /\ UNCHANGED caller
       ELSE /\ UNCHANGED sendsOk
            /\ RpReturn("connfail", 0)
  /\ UNCHANGED <<cfgVars, resVars, fills, avail, loopVars, outVars,
                 exitVars, awake>>

\* line 97: waitForReadyRead(50) returns true with new bytes buffered, or
\* false with the socket error set.  A timeout leaves the connection up.
RpWait(ok, e, n, stillUp) ==
  /\ pc = "rp_wait"
  /\ waitRes' = ok
  /\ IF ok
       THEN avail' = n /\ UNCHANGED <<err, connected>>
       ELSE /\ err' = e
            /\ connected' = CASE e = "Timeout" -> connected
                              [] e = "RemoteClosed" -> FALSE
                              [] OTHER -> stillUp
            /\ UNCHANGED avail
  /\ pc' = "rp_after"
  /\ UNCHANGED <<cfgVars, resVars, caller, fills, rpRet, rpCause, len,
                 connAttempts, sendsOk, loopVars, outVars, exitVars, awake>>

\* lines 98-113: the checks after the wait
RpAfterWait ==
  /\ pc = "rp_after"
  /\ IF intr
       THEN /\ observed' = "adapter"
            /\ RpReturn("intr", 0)
       ELSE /\ UNCHANGED observed
            /\ IF ~waitRes
                 THEN IF err = "RemoteClosed"
                        THEN RpReturn("closed", 0)
                        ELSE IF err # "Timeout"
                               THEN RpReturn("other", 0)
                               ELSE /\ pc' = "rp_loop"
                                    /\ err' = "none"
                                    /\ UNCHANGED <<rpRet, rpCause, len,
                                                   waitRes, caller>>
                 ELSE /\ len' = avail
                      /\ waitRes' = FALSE
                      /\ pc' = IF avail = 0 THEN "rp_loop" ELSE "rp_copy"
                      /\ UNCHANGED <<rpRet, rpCause, err, caller>>
  /\ UNCHANGED <<m_videoMode, intr, intrAtStart, m_imageWidth, m_imageHeight,
                 resVars, fills, connected, avail, connAttempts,
                 sendsOk, loopVars, outVars, exitVars, awake>>

\* lines 115-117: the count is cut down to the capacity
Clamp_none(l, cap) == l
Clamp(l, cap) == IF l > cap THEN cap ELSE l

\* lines 115-121: clamp to the capacity, read, return the count
RpCopy(readOk) ==
  /\ pc = "rp_copy"
  /\ LET n == Clamp(len, BufSize)
     IN IF readOk
          THEN avail' = avail - n /\ RpReturn("data", n)
          ELSE UNCHANGED avail /\ RpReturn("readfail", 0)
  /\ UNCHANGED <<cfgVars, resVars, fills, connected, connAttempts,
                 sendsOk, loopVars, outVars, exitVars, awake>>

ReadPacket ==
  \/ RpEntry
  \/ RpConnected
  \/ \E connOk \in BOOLEAN, sendOk \in BOOLEAN : RpReconnect(connOk, sendOk)
  \/ \E n \in 1..MaxAvail : RpWait(TRUE, "none", n, TRUE)
  \/ \E e \in {"Timeout", "RemoteClosed", "Other"}, up \in BOOLEAN :
        RpWait(FALSE, e, 0, up)
  \/ \E readOk \in BOOLEAN : RpCopy(readOk)
  \/ RpAfterWait

\* a libavformat call returns: what it learnt from read_packet is consumed
LibDone ==
  /\ fills' = 0 /\ rpRet' = 0 /\ rpCause' = "none"
  /\ connAttempts' = 0 /\ sendsOk' = 0
  /\ UNCHANGED <<caller, len, waitRes, err, connected, avail>>

\* ---------------------------------------------------------------- h264Init, probing
\* line 148: avformat_open_input returns.  On failure libavformat frees the
\* caller-supplied demux context and nulls the pointer; the custom I/O
\* context is the caller's and stays allocated.  h264Init returns false.
OpenReturn(ok) ==
  /\ pc = "open"
  /\ IF ok
       THEN /\ pc' = "info"
            /\ UNCHANGED <<heap, m_avFormat, exitPath>>
       ELSE /\ heap' = [heap EXCEPT !["fmt"] = "freed"]
            /\ m_avFormat' = FALSE
            /\ exitPath' = "openfail"
            /\ pc' = "exit"
  /\ LibDone
  /\ UNCHANGED <<cfgVars, codecLive, swsLive, m_frame, m_rgbFrame, m_codecCtx,
                 m_swsContext, streams, nbStreams, streamIndex, loopVars,
                 outVars, exitCalls, freeLog, snap, ub, awake>>

\* line 155: avformat_find_stream_info returns; on success the demux context
\* lists the streams ss and h264Init returns true.
InfoReturn(ok, ss) ==
  /\ pc = "info"
  /\ IF ok
       THEN /\ streams' = ss
            /\ nbStreams' = Len(ss)
            /\ pc' = "select"
            /\ UNCHANGED exitPath
       ELSE /\ UNCHANGED <<streams, nbStreams>>
            /\ exitPath' = "infofail"
            /\ pc' = "exit"
  /\ LibDone
  /\ UNCHANGED <<cfgVars, heap, codecLive, swsLive, m_avFormat, m_frame,
                 m_rgbFrame, m_codecCtx, m_swsContext, streamIndex, loopVars,
                 outVars, exitCalls, freeLog, snap, ub, awake>>

H264Init ==
  \/ H264InitAlloc
  \/ LibFill
  \/ \E ok \in BOOLEAN : OpenReturn(ok)
  \/ InfoReturn(FALSE, << >>)
  \/ \E ss \in SeqsUpTo(StreamKinds, MaxStreams) : InfoReturn(TRUE, ss)

\* ---------------------------------------------------------------- h264VideoStreamIndex
\* One pass of the loop body (lines 170-215) for stream i (1-based position,
\* index i - 1 in the source) on the selection state
\* s = [idx, codec, sws, cl, sl]: the local streamIndex, the two members and
\* the sets of live decoder contexts and scalers.
\* (SelectStep_first: the loop as if it stopped at the first stream it opened)
SelectStep_first(s, i, kind) ==
  CASE s.idx # -1 \/ kind \in {"audio", "nodec"} -> s
    [] kind \in {"noalloc", "ctxfail"} -> [s EXCEPT !.codec = 0]
    [] kind = "ok" ->
         [s EXCEPT !.codec = i, !.cl = @ \cup {i},
                   !.sws = i, !.sl = @ \cup {i}, !.idx = i - 1]
    [] kind = "oknosws" ->
         [s EXCEPT !.codec = i, !.cl = @ \cup {i}, !.sws = 0, !.idx = i - 1]

SelectStep(s, i, kind) ==
  CASE kind \in {"audio", "nodec"} -> s
    [] kind \in {"noalloc", "ctxfail"} -> [s EXCEPT !.codec = 0]
    [] kind = "ok" ->
         [s EXCEPT !.codec = i, !.cl = @ \cup {i},
                   !.sws = i, !.sl = @ \cup {i}, !.idx = i - 1]
    [] kind = "oknosws" ->
         [s EXCEPT !.codec = i, !.cl = @ \cup {i}, !.sws = 0, !.idx = i - 1]

RECURSIVE SelectFrom(_, _, _)
SelectFrom(s, ss, i) ==
  IF i > Len(ss) THEN s ELSE SelectFrom(SelectStep(s, i, ss[i]), ss, i + 1)

\* the whole function: streamIndex starts at -1, the members keep their values
SelectResult(ss) ==
  SelectFrom([idx |-> -1, codec |-> m_codecCtx, sws |-> m_swsContext,
              cl |-> codecLive, sl |-> swsLive], ss, 1)

\* line 228: streamIndex = h264VideoStreamIndex()
Select ==
  /\ pc = "select"
  /\ LET r == SelectResult(streams)
     IN /\ streamIndex' = r.idx
        /\ m_codecCtx' = r.codec
        /\ m_swsContext' = r.sws
        /\ codecLive' = r.cl
        /\ swsLive' = r.sl
  /\ pc' = "selected"
  /\ UNCHANGED <<cfgVars, heap, m_avFormat, m_frame, m_rgbFrame, streams,
                 nbStreams, rpVars, loopVars, outVars, exitVars, awake>>

\* lines 229-237: -1 ends the session, anything else enters the loop
CheckIndex ==
  /\ pc = "selected"
  /\ IF streamIndex = -1
       THEN pc' = "exit" /\ exitPath' = "nostream"
       ELSE pc' = "top" /\ UNCHANGED exitPath
  /\ streams' = << >>
  /\ UNCHANGED <<cfgVars, heap, codecLive, swsLive, m_avFormat, m_frame,
                 m_rgbFrame, m_codecCtx, m_swsContext, nbStreams, streamIndex,
                 rpVars, loopVars, outVars, exitCalls, freeLog, snap, ub,
                 awake>>

\* ---------------------------------------------------------------- h264Loop
\* line 239: the loop condition
LoopCond_skip(flag) == TRUE
LoopCond(flag) == ~flag

\* line 253: where `continue` leads after the decoder answered EAGAIN
FeedEagainTarget_break(drain) == IF drain THEN "exit" ELSE "top"
FeedEagainTarget(drain) == "top"

\* line 282: res after a frame was produced
ResAfterEmit_keep(r) == r
ResAfterEmit(r) == TRUE

\* lines 223-232 and 295: the value h264Loop returns on each exit path
LoopResult_true(path, r) == path # "nostream" => r
LoopResult(path, r) ==
  IF path \in {"openfail", "infofail", "nostream"} THEN FALSE ELSE r

\* line 239: while (!isInterruptionRequested())
LoopTop ==
  /\ pc = "top"
  /\ IF LoopCond(intr)
       THEN /\ pc' = "read"
            /\ UNCHANGED <<observed, exitPath>>
       ELSE /\ pc' = "exit"
            /\ observed' = "top"
            /\ exitPath' = "intr"
  /\ readRet' = "none"
  /\ drainDecoder' = FALSE /\ feedRet' = "none" /\ recvRet' = "none"
  /\ UNCHANGED <<m_videoMode, intr, intrAtStart, m_imageWidth, m_imageHeight,
                 resVars, rpVars, pktHeld, pktLeaked, res, result, returned,
                 outVars, exitCalls, freeLog, snap, ub, awake>>

\* what av_read_frame may return: a unit of the selected stream, a unit of
\* another stream (the input has at least two), EAGAIN, end of file, or
\* another error.  When read_packet failed, the demuxer reports that error,
\* or first hands out a unit its parser still held.
ReadOutcomes ==
  (IF rpRet = RP_FAIL THEN {"ERR", "pkt_sel"}
                      ELSE {"ERR", "pkt_sel", "EAGAIN", "EOF"})
  \cup (IF nbStreams >= 2 THEN {"pkt_other"} ELSE {})

\* lines 240-246 (and 287-291 for a unit of another stream)
ReadReturn(ret) ==
  /\ pc = "read"
  /\ ret \in ReadOutcomes
  /\ readRet' = ret
  /\ drainDecoder' = (ret \in {"EAGAIN", "EOF"})
  /\ pktLeaked' = (pktLeaked \/ pktHeld)
  /\ CASE ret = "ERR" ->
            /\ pktHeld' = FALSE
            /\ exitPath' = "readfatal"
            /\ pc' = "exit"
            /\ fills' = 0 /\ rpRet' = 0 /\ connAttempts' = 0 /\ sendsOk' = 0
            /\ UNCHANGED <<rpCause, caller, len, waitRes, err, connected, avail>>
       [] ret = "pkt_other" ->
            /\ pktHeld' = FALSE
            /\ pc' = "top"
            /\ LibDone
            /\ UNCHANGED exitPath
       [] ret = "pkt_sel" ->
            /\ pktHeld' = TRUE
            /\ pc' = "feed"
            /\ LibDone
            /\ UNCHANGED exitPath
       [] OTHER ->
            /\ pktHeld' = FALSE
            /\ pc' = "feed"
            /\ LibDone
            /\ UNCHANGED exitPath
  /\ UNCHANGED <<cfgVars, resVars, feedRet, recvRet, res, result, returned,
                 outVars, exitCalls, freeLog, snap, ub, awake>>

\* lines 247-254: avcodec_send_packet.  With m_codecCtx null the call is
\* undefined: it crashes or returns anything.
Feed(r, crash) ==
  /\ pc = "feed"
  /\ crash => m_codecCtx = 0
  /\ ub' = IF m_codecCtx = 0 THEN ub \cup {"codecCtx_null"} ELSE ub
  /\ IF crash
       THEN /\ pc' = "crashed"
            /\ UNCHANGED <<feedRet, exitPath, pktLeaked>>
       ELSE /\ feedRet' = r
            /\ CASE r = "OK" ->
                      pc' = "drain" /\ UNCHANGED <<exitPath, pktLeaked>>
                 [] r = "EAGAIN" ->
                      /\ pc' = FeedEagainTarget(drainDecoder)
                      /\ UNCHANGED <<exitPath, pktLeaked>>
                 [] OTHER ->
                      /\ pc' = "exit"
                      /\ exitPath' = "feedfatal"
                      /\ pktLeaked' = (pktLeaked \/ pktHeld)
  /\ UNCHANGED <<cfgVars, resVars, rpVars, readRet, drainDecoder, recvRet,
                 pktHeld, res, result, returned, outVars, exitCalls, freeLog,
                 snap, awake>>

\* lines 257-283: avcodec_receive_frame produced a frame; it is scaled into
\* the output frame, copied into a QImage of the configured size and
\* emitted.  sws_scale on a null scaler is undefined.
ReceiveFrame(crash) ==
  /\ pc = "drain"
  /\ emitted < MaxFrames
  /\ crash => m_swsContext = 0
  /\ ub' = IF m_swsContext = 0 THEN ub \cup {"swsContext_null"} ELSE ub
  /\ IF crash
       THEN /\ pc' = "crashed"
            /\ UNCHANGED <<recvRet, res, outVars>>
       ELSE /\ recvRet' = "frame"
            /\ res' = ResAfterEmit(res)
            /\ emitted' = emitted + 1
            /\ lastEmit' = [w |-> m_imageWidth, h |-> m_imageHeight,
                            src |-> "decode"]
            /\ pc' = "drain"
  /\ UNCHANGED <<cfgVars, resVars, rpVars, readRet, drainDecoder, feedRet,
                 pktHeld, pktLeaked, result, returned, exitCalls, exitPath,
                 freeLog, snap, awake>>

\* lines 289-291: after the drain pass the loop ends if drainDecoder is set
AfterDrain_continue(drain) == "top"
AfterDrain(drain) == IF drain THEN "exit" ELSE "top"

\* lines 258-264 and 287-291: avcodec_receive_frame returned EAGAIN, end of
\* file or another error: the inner loop ends, the unit is unreferenced and
\* the outer loop ends if drainDecoder is set.
ReceiveEnd(r) ==
  /\ pc = "drain"
  /\ recvRet' = r
  /\ pktHeld' = FALSE
  /\ pc' = AfterDrain(drainDecoder)
  /\ exitPath' = IF AfterDrain(drainDecoder) = "exit" THEN "drained" ELSE exitPath
  /\ UNCHANGED <<cfgVars, resVars, rpVars, readRet, drainDecoder, feedRet,
                 pktLeaked, res, result, returned, outVars, exitCalls,
                 freeLog, snap, ub, awake>>

DecodeLoop ==
  \/ LoopTop
  \/ \E ret \in {"ERR", "pkt_sel", "pkt_other", "EAGAIN", "EOF"} : ReadReturn(ret)
  \/ \E r \in {"OK", "EAGAIN", "ERR"}, crash \in BOOLEAN : Feed(r, crash)
  \/ \E crash \in BOOLEAN : ReceiveFrame(crash)
  \/ \E r \in {"EAGAIN", "EOF", "ERR"} : ReceiveEnd(r)

\* ---------------------------------------------------------------- h264Exit
resState == <<heap, codecLive, swsLive, m_avFormat, m_frame, m_rgbFrame,
              m_codecCtx, m_swsContext>>

\* undefined steps of one h264Exit call in the present state: line 301 frees
\* through a pointer it never clears, line 304 dereferences m_rgbFrame
ExitHazards ==
  (IF m_swsContext # 0 /\ m_swsContext \notin swsLive
     THEN {"sws_double_free"} ELSE {})
  \cup (IF ~m_rgbFrame THEN {"rgbFrame_null_deref"} ELSE {})

\* ExitReleases without line 304: the pixel storage is never freed
ExitReleases_keepPixels ==
  (IF m_swsContext # 0 THEN <<"sws">> ELSE << >>)
  \o (IF m_frame THEN <<"frame">> ELSE << >>)
  \o (IF m_rgbFrame THEN <<"rgb">> ELSE << >>)
  \o (IF m_codecCtx # 0 THEN <<"codec">> ELSE << >>)
  \o (IF m_avFormat THEN <<"fmt", "pb">> ELSE << >>)

\* ExitReleases with lines 304 and 305 exchanged, and 311 and 312
ExitReleases_reordered ==
  (IF m_swsContext # 0 THEN <<"sws">> ELSE << >>)
  \o (IF m_frame THEN <<"frame">> ELSE << >>)
  \o (IF m_rgbFrame THEN <<"rgb">> ELSE << >>)
  \o (IF m_rgbFrame /\ heap["rgbdata"] = "live" THEN <<"rgbdata">> ELSE << >>)
  \o (IF m_codecCtx # 0 THEN <<"codec">> ELSE << >>)
  \o (IF m_avFormat THEN <<"pb", "fmt">> ELSE << >>)

\* the objects one h264Exit call releases, in the order of lines 300-313
ExitReleases ==
  (IF m_swsContext # 0 THEN <<"sws">> ELSE << >>)
  \o (IF m_frame THEN <<"frame">> ELSE << >>)
  \o (IF m_rgbFrame /\ heap["rgbdata"] = "live" THEN <<"rgbdata">> ELSE << >>)
  \o (IF m_rgbFrame THEN <<"rgb">> ELSE << >>)
  \o (IF m_codecCtx # 0 THEN <<"codec">> ELSE << >>)
  \o (IF m_avFormat THEN <<"fmt", "pb">> ELSE << >>)

\* h264Exit, lines 298-314.  A call that hits an undefined step crashes or
\* carries on.
H264ExitBody(crash) ==
  /\ crash => ExitHazards # {}
  /\ ub' = ub \cup ExitHazards
  /\ exitCalls' = exitCalls + 1
  /\ IF crash
       THEN UNCHANGED <<heap, codecLive, swsLive, m_avFormat, m_frame,
                        m_rgbFrame, m_codecCtx, m_swsContext, freeLog>>
       ELSE /\ freeLog' = ExitReleases
            /\ swsLive' = swsLive \ {m_swsContext}
            /\ UNCHANGED m_swsContext
            /\ codecLive' = codecLive \ {m_codecCtx}
            /\ m_codecCtx' = 0
            /\ heap' = [o \in Singletons |->
                          IF \E k \in DOMAIN ExitReleases : ExitReleases[k] = o
                            THEN "freed" ELSE heap[o]]
            /\ m_frame' = FALSE /\ m_rgbFrame' = FALSE /\ m_avFormat' = FALSE

\* lines 224-225, 230-231, 294-295: h264Exit(); return
H264Exit(crash) ==
  /\ pc = "exit"
  /\ H264ExitBody(crash)
  /\ IF crash
       THEN pc' = "crashed" /\ UNCHANGED <<result, returned, snap>>
       ELSE /\ pc' = "returned"
            /\ returned' = TRUE
            /\ result' = LoopResult(exitPath, res)
            /\ snap' = resState'
  /\ UNCHANGED <<cfgVars, streams, nbStreams, streamIndex, rpVars, readRet,
                 drainDecoder, feedRet, recvRet, pktHeld, pktLeaked, res,
                 outVars, exitPath, awake>>

\* a second h264Exit() right after the first
ExitAgain(crash) ==
  /\ pc = "returned"
  /\ exitCalls = 1
  /\ H264ExitBody(crash)
  /\ pc' = IF crash THEN "crashed" ELSE "returned"
  /\ UNCHANGED <<cfgVars, streams, nbStreams, streamIndex, rpVars, loopVars,
                 outVars, exitPath, snap, awake>>

\* ---------------------------------------------------------------- specifications
Next ==
  \/ Run
  \/ RunClose
  \/ RequestInterruption
  \/ \E mode \in VideoModes : SetVideoMode(mode)
  \/ NativeLoop
  \/ H264Init
  \/ ReadPacket
  \/ Select
  \/ CheckIndex
  \/ DecodeLoop
  \/ \E crash \in BOOLEAN : H264Exit(crash)

Spec == Init /\ [][Next]_vars

\* the session followed by a second teardown call
NextTwice ==
  \/ Next
  \/ \E crash \in BOOLEAN : ExitAgain(crash)

SpecTwice == Init /\ [][NextTwice]_vars

\* ---------------------------------------------------------------- properties
SnapshotModes == {"NativeJpg", "NativeRaw", "NativePng"}
InNativeLoop == pc \in {"n_top", "n_body", "n_sleep"}

\* C1: whenever h264Loop has returned, on whatever exit path, its result is
\* true exactly if at least one frame was emitted during the run.
C1_ResultIffEmitted == returned => (result <=> emitted > 0)

\* C1 witness: a run that emitted a frame and then ended on a fatal read
\* has returned true.
C1_Witness ==
  returned /\ result /\ emitted > 0 /\ exitPath = "readfatal"

\* C2 (as claimed): the loop ends after a drain pass only when the read
\* that started the pass reported end of input; after EAGAIN it goes back
\* to Reading.
C2_OnlyEofEndsAfterDrain == exitPath = "drained" => readRet = "EOF"

\* C3 (as claimed): a second h264Exit right after the first hits no
\* undefined step (no double free, no access through a released or null
\* pointer), does not crash and leaves the resources as the first call
\* left them.
C3_TeardownIdempotent ==
  exitCalls = 2 =>
    /\ ub \cap {"sws_double_free", "rgbFrame_null_deref"} = {}
    /\ pc # "crashed"
    /\ resState = snap

\* C4 (as claimed): when h264Loop has returned, nothing allocated during
\* the session is still allocated: demux context, I/O context, both frames,
\* the pixel storage, every decoder context and every scaler.
C4_AllReleased ==
  returned =>
    /\ \A o \in Singletons : heap[o] # "live"
    /\ codecLive = {}
    /\ swsLive = {}

\* C5 (as claimed): once the worker has seen the interruption flag set, at
\* the top of the loop or inside read_packet, no further frame is emitted.
C5_NoFrameAfterObserved == [][observed # "no" => emitted' = emitted]_vars

\* C6 (as claimed): read_packet's result for RemoteClosed differs from its
\* result for any other connection error, and a loop that ends after
\* RemoteClosed does not end on the fatal read-error path.
C6_ClosedIsEndOfInput ==
  /\ rpCause = "closed" => rpRet # ReadPacketRet("other", 0)
  /\ ~(exitPath = "readfatal" /\ rpCause = "closed")

\* C7: when avcodec_send_packet answers EAGAIN, the loop goes back to the
\* top of the loop (the next Reading) and nowhere else: it does not end,
\* does not drain and emits nothing, whatever the read had returned.
C7_FeedAgainRetries ==
  [][(pc = "feed" /\ feedRet' = "EAGAIN") =>
       /\ pc' = "top"
       /\ emitted' = emitted
       /\ exitPath' = exitPath
       /\ ~returned']_vars

\* C7 witness: the decoder answered EAGAIN to the empty unit submitted
\* after an end-of-input read, and the loop is back at its top.
C7_Witness ==
  pc = "top" /\ feedRet = "EAGAIN" /\ drainDecoder /\ readRet = "EOF"

\* C8: if the interruption flag was set when the session started, no frame
\* is ever emitted, and once h264Loop has returned h264Exit has run exactly
\* once and the result is false.
C8_InterruptedAtStart ==
  intrAtStart =>
    /\ emitted = 0
    /\ returned => (exitCalls = 1 /\ ~result)

\* C8 witness: the flag was set from the start, probing and stream
\* selection went through, the loop condition ended the session and
\* h264Loop returned.
C8_Witness ==
  intrAtStart /\ returned /\ exitPath = "intr" /\ streamIndex >= 0

\* C9 (as claimed): every emitted frame has exactly the configured width
\* and height, in the decode loop and in the snapshot loop.
C9_ExactOutputSize ==
  emitted > 0 => (lastEmit.w = m_imageWidth /\ lastEmit.h = m_imageHeight)

InSession ==
  pc \in {"open", "info", "select", "selected", "top", "read", "feed",
          "drain", "exit", "rp_entry", "rp_loop", "rp_wait", "rp_after",
          "rp_copy"}

Count(log, x) == Cardinality({k \in DOMAIN log : log[k] = x})
Pos(log, x) == CHOOSE k \in DOMAIN log : log[k] = x

\* C11: the output pixel storage does not exist before h264Init, stays
\* allocated (never freed, never allocated again) through probing,
\* selection and every decode iteration, and once h264Loop has returned it
\* has been freed exactly once by the one h264Exit call of the session.
C11_PixelStorageOnce ==
  /\ pc \in {"run", "h264Init"} => heap["rgbdata"] = "unalloc"
  /\ InSession => (heap["rgbdata"] = "live" /\ exitCalls = 0)
  /\ returned => /\ heap["rgbdata"] = "freed"
                 /\ exitCalls = 1
                 /\ Count(freeLog, "rgbdata") = 1

\* C11 witness: a session that went through several decode iterations,
\* emitted two frames and ended after a drain has returned.
C11_Witness ==
  returned /\ emitted >= 2 /\ exitPath = "drained" /\ exitCalls = 1

\* the streams that are video and for which the decoder was found, its
\* context allocated, the parameters copied and the decoder opened
Opened(ss) == {i \in 1..Len(ss) : ss[i] \in {"ok", "oknosws"}}

\* index (as in the source, from 0) of the last such stream, -1 without one
LastOpened(ss) ==
  IF Opened(ss) = {} THEN -1
  ELSE (CHOOSE i \in Opened(ss) : \A j \in Opened(ss) : j <= i) - 1

\* C12 (as claimed): when h264VideoStreamIndex has returned, either the
\* index is -1 and neither a decoder context nor a scaler is held, or the
\* index is a stream's and both m_codecCtx and m_swsContext are the objects
\* built from that stream.
C12_CtxAndScalerMatchIndex ==
  pc = "selected" =>
    \/ streamIndex = -1 /\ m_codecCtx = 0 /\ m_swsContext = 0
    \/ /\ streamIndex >= 0
       /\ m_codecCtx = streamIndex + 1
       /\ m_swsContext = streamIndex + 1

\* C13: h264VideoStreamIndex returns the index of the last stream that is
\* a video stream whose decoder was found, allocated, given its parameters
\* and opened, and -1 if there is none; audio streams change nothing.
C13_LastOpenedWins ==
  pc = "selected" => streamIndex = LastOpened(streams)

\* C13 witness: two video streams both opened and the second was returned.
C13_Witness ==
  /\ pc = "selected"
  /\ streams = <<"ok", "ok">>
  /\ streamIndex = 1

\* C14 (as claimed): when avcodec_receive_frame returns an error other
\* than EAGAIN and end of file, the loop ends and goes to teardown instead
\* of going back to Reading.
C14_ReceiveErrorEndsLoop ==
  [][(pc = "drain" /\ recvRet' = "ERR") => pc' = "exit"]_vars

\* the worker is inside read_packet
InReadPacket ==
  pc \in {"rp_entry", "rp_loop", "rp_wait", "rp_after", "rp_copy"}

\* C15: read_packet returns either a negative value or a count of at least
\* 1 that exceeds neither the capacity nor the bytes buffered when it
\* copies, never 0; and with bytes buffered at entry it goes straight to
\* the copy and returns, without a wait and without a connection attempt.
C15_FillResult ==
  [][/\ (InReadPacket /\ ~InReadPacket') =>
          \/ rpRet' < 0
          \/ /\ pc = "rp_copy"
             /\ rpRet' >= 1
             /\ rpRet' <= BufSize
             /\ rpRet' <= avail
     /\ (pc = "rp_entry" /\ avail > 0 /\ pc' # pc) =>
          (pc' = "rp_copy" /\ connAttempts' = 0)
     /\ (pc = "rp_copy" /\ pc' # pc) =>
          /\ ~InReadPacket'
          /\ connAttempts' = connAttempts
          /\ connected' = connected]_vars

\* C15 witness: read_packet has returned a count equal to the capacity
\* while more bytes than that were buffered.
C15_Witness ==
  /\ ~InReadPacket
  /\ rpCause = "data"
  /\ rpRet = BufSize
  /\ avail >= 1

\* C16: within one read_packet call h264Connect runs at most once; a call
\* of h264Connect that does not get its command accepted makes read_packet
\* return its failure value at once; and a capture-start command is
\* accepted only as part of a connection attempt, one per attempt.
C16_OneReconnectPerFill ==
  [][/\ connAttempts' <= 1
     /\ sendsOk' <= connAttempts'
     /\ (pc = "rp_loop" /\ connAttempts' = connAttempts + 1
           /\ sendsOk' = sendsOk) =>
          (~InReadPacket' /\ rpRet' = RP_FAIL /\ rpCause' = "connfail")
     /\ sendsOk' > sendsOk =>
          (sendsOk' = sendsOk + 1 /\ connAttempts' = connAttempts + 1
             /\ connected')]_vars

\* C16 witness: read_packet has reconnected once, its wait has timed out
\* and it is about to go round its loop again.
C16_Witness ==
  /\ pc = "rp_after"
  /\ connAttempts = 1 /\ sendsOk = 1
  /\ ~waitRes /\ err = "Timeout" /\ ~intr

C18_NoReadingAfterEof ==
  [][readRet = "EOF" => pc' # "read"]_vars

\* C18 (amended): after Reading reported end of input the unit submitted is
\* empty; in the drain pass that follows an accepted submission every frame
\* pulled is emitted, and the answer that ends the pass (need more input,
\* end of stream or an error) sends the loop to teardown without a frame;
\* the loop gets back to its top only when the decoder answered the
\* submission with "try again".
C18_EofDrainsThenEnds ==
  [][readRet = "EOF" =>
       /\ pc = "feed" => (~pktHeld /\ drainDecoder)
       /\ (pc = "drain" /\ emitted' # emitted) =>
            (emitted' = emitted + 1 /\ recvRet' = "frame" /\ pc' = "drain")
       /\ (pc = "drain" /\ recvRet' \in {"EAGAIN", "EOF", "ERR"}) =>
            (pc' = "exit" /\ exitPath' = "drained" /\ emitted' = emitted)
       /\ (pc # "top" /\ pc' = "top") =>
            (pc = "feed" /\ feedRet' = "EAGAIN")]_vars

\* C18 witness: Reading reported end of input, the empty unit was accepted,
\* a frame was emitted, the decoder then reported need more input and the
\* loop is at teardown.
C18_Witness ==
  /\ pc = "exit" /\ exitPath = "drained"
  /\ readRet = "EOF" /\ feedRet = "OK" /\ recvRet = "EAGAIN"
  /\ emitted >= 1

\* C19 (as claimed): a unit obtained by a Reading step is never still
\* referenced when the next Reading step overwrites it, nor when the loop
\* has been left.
C19_UnitReleased ==
  /\ ~pktLeaked
  /\ pc \in {"exit", "returned", "closed"} => ~pktHeld

\* C20: the one teardown of a session hits no undefined step of its own,
\* releases no object twice, frees the output pixel storage before the
\* output frame object that points to it, and frees the custom I/O context
\* only after the demux context using it was closed.
C20_ReleaseOrder ==
  /\ ub \cap {"sws_double_free", "rgbFrame_null_deref"} = {}
  /\ \A j, k \in DOMAIN freeLog : freeLog[j] = freeLog[k] => j = k
  /\ returned =>
       /\ Count(freeLog, "rgb") = 1
       /\ Count(freeLog, "rgbdata") = 1
       /\ Pos(freeLog, "rgbdata") < Pos(freeLog, "rgb")
       /\ Count(freeLog, "pb") = 1 =>
            /\ Count(freeLog, "fmt") = 1
            /\ Pos(freeLog, "fmt") < Pos(freeLog, "pb")

\* C20 witness: a session with a decoder, a scaler and an open input has
\* been torn down, every object released in the order of h264Exit.
C20_Witness ==
  /\ returned
  /\ freeLog = <<"sws", "frame", "rgbdata", "rgb", "codec", "fmt", "pb">>

====
